---- MODULE Spec2Model ----
\* Model of linkedin_scraper.py: the LinkedInScraper class (collection of
\* simulated profile records, CSV/JSON export, statistics) and the script
\* run under `if __name__ == '__main__'`.
\*
\* Python strings are sequences of one-character strings, Python values are
\* tagged by the name of their single field ([str |-> ..], [int |-> ..],
\* [none |-> ..]) and a dict is the sequence of its <<key, value>> items in
\* insertion order.
EXTENDS Integers, Sequences, FiniteSets, TLC

VARIABLES
    profiles,     \* self.profiles
    output_csv,   \* self.output_csv
    min_delay,    \* self.min_delay
    max_delay,    \* self.max_delay
    log,          \* records emitted through self.logger, oldest first
    fs,           \* the file system: path -> content, or Absent
    clock,        \* the wall clock read by datetime.now(), in seconds
    pc,           \* "idle", or "loop" inside the for loop of scrape_profiles
    urls,         \* profile_urls, the argument of the running scrape_profiles
    idx,          \* number of loop iterations of scrape_profiles done
    base,         \* len(self.profiles) when the running scrape_profiles began
    ret,          \* operation and value of the last return of a method
    mpc,          \* position of the script: "off" when the class is used as a library
    csv_file,     \* the script's csv_file
    json_file,    \* the script's json_file
    stats,        \* the script's stats
    out,          \* lines the script printed
    identifier,   \* input of the username extraction
    username,     \* its result
    upc           \* "in" before the extraction, "out" after it

vars == <<profiles, output_csv, min_delay, max_delay, log, fs, clock, pc, urls,
          idx, base, ret, mpc, csv_file, json_file, stats, out, identifier,
          username, upc>>

classvars == <<profiles, output_csv, min_delay, max_delay, log, fs, clock>>
callvars == <<pc, urls, idx, base>>
mainvars == <<mpc, csv_file, json_file, stats, out>>
uservars == <<identifier, username, upc>>

-----------------------------------------------------------------------------
\* Bounds of the exploration.

MaxStrLen == 7      \* longest identifier of the username extraction
MaxUrls == 2        \* longest profile_urls list of one scrape_profiles call
MaxProfiles == 2    \* largest collection explored
MaxLog == 9         \* longest log explored
MaxSaves == 1       \* most export calls explored

-----------------------------------------------------------------------------
\* Python values.

S(chars) == [str |-> chars]
I(n) == [int |-> n]
None == [none |-> 0]
IsStr(v) == "str" \in DOMAIN v
IsInt(v) == "int" \in DOMAIN v
\* a file path, a list and a dict held in a variable or returned
P(path) == [path |-> path]
L(items) == [list |-> items]
D(items) == [dict |-> items]

\* str.rstrip('/')
RECURSIVE RStrip(_)
RStrip(s) ==
    IF Len(s) > 0 /\ s[Len(s)] = "/" THEN RStrip(SubSeq(s, 1, Len(s) - 1)) ELSE s

Marker == <<"/", "i", "n", "/">>

\* First index >= from at which sep occurs in s, 0 when there is none.
RECURSIVE Find(_, _, _)
Find(s, sep, from) ==
    IF from + Len(sep) - 1 > Len(s) THEN 0
    ELSE IF SubSeq(s, from, from + Len(sep) - 1) = sep THEN from
    ELSE Find(s, sep, from + 1)

\* str.split(sep): scans left to right, each match starts after the previous one ends.
RECURSIVE SplitFrom(_, _, _)
SplitFrom(s, sep, from) ==
    LET i == Find(s, sep, from)
    IN  IF i = 0 THEN << SubSeq(s, from, Len(s)) >>
        ELSE << SubSeq(s, from, i - 1) >> \o SplitFrom(s, sep, i + Len(sep))

Split(s, sep) == SplitFrom(s, sep, 1)

\* the extraction without .rstrip('/')
Username_NoStrip(profile_url) ==
    LET parts == Split(profile_url, Marker) IN parts[Len(parts)]

\* username = profile_url.split('/in/')[-1].rstrip('/')
Username(profile_url) ==
    LET parts == Split(profile_url, Marker) IN RStrip(parts[Len(parts)])

Lowers == <<"a", "b", "i", "n">>
Uppers == <<"A", "B", "I", "N">>
IsAlpha(c) == \E k \in 1..Len(Lowers) : c = Lowers[k] \/ c = Uppers[k]
Upper(c) == IF \E k \in 1..Len(Lowers) : c = Lowers[k]
            THEN Uppers[CHOOSE k \in 1..Len(Lowers) : c = Lowers[k]] ELSE c
Lower(c) == IF \E k \in 1..Len(Uppers) : c = Uppers[k]
            THEN Lowers[CHOOSE k \in 1..Len(Uppers) : c = Uppers[k]] ELSE c

\* str.title(): a letter that follows a non-letter is upper-cased, any other
\* letter is lower-cased.
Title(s) ==
    [k \in 1..Len(s) |->
        IF IsAlpha(s[k])
        THEN IF k = 1 \/ ~IsAlpha(s[k - 1]) THEN Upper(s[k]) ELSE Lower(s[k])
        ELSE s[k]]

DigitChar == <<"0", "1", "2", "3", "4", "5", "6", "7", "8", "9">>

\* str(n) of an int
RECURSIVE IntToStr(_)
IntToStr(n) ==
    IF n < 0 THEN <<"-">> \o IntToStr(-n)
    ELSE IF n < 10 THEN << DigitChar[n + 1] >>
    ELSE IntToStr(n \div 10) \o << DigitChar[(n % 10) + 1] >>

\* datetime.isoformat(): the text of the instant (calendar fields abstracted
\* to the count of seconds).
IsoFormat(t) == <<"T">> \o IntToStr(t)

-----------------------------------------------------------------------------
\* dicts

Keys(d) == [k \in 1..Len(d) |-> d[k][1]]
HasKey(d, key) == \E k \in 1..Len(d) : d[k][1] = key
\* dict.get(key, default)
Get(d, key, default) ==
    IF HasKey(d, key) THEN d[CHOOSE k \in 1..Len(d) : d[k][1] = key][2] ELSE default

-----------------------------------------------------------------------------
\* Inputs and random draws explored.

Paths == {"profiles.csv", "profiles.json"}
Absent == [absent |-> 0]
\* content of a file that was there before the scraper ran
Stale == [text |-> "other", items |-> <<>>, closed |-> TRUE]

ConnMin == 100
ConnMax == 5000
EndoMin == 0
EndoMax == 500
\* random.randint(100, 5000) and random.randint(0, 500), sampled
ConnSamples == {c \in {ConnMin, 300} : ConnMin <= c /\ c <= ConnMax}
EndoSamples == {e \in {EndoMax} : EndoMin <= e /\ e <= EndoMax}

DefaultMinDelay == 2
DefaultMaxDelay == 5
\* (min_delay, max_delay) given to the constructor
DelayConfigs == {<<DefaultMinDelay, DefaultMaxDelay>>, <<-1, DefaultMaxDelay>>}
\* random.uniform(min_delay, max_delay), sampled at its two ends
DelaySamples == {min_delay, max_delay}

\* identifiers handed to the scraper; None stands for any non-string
Ids == { S(<<"a", "/", "i", "n", "/", "b", "/">>), S(<<"n", "a">>), None }
UrlLists == UNION { [1..n -> Ids] : n \in 0..MaxUrls }

-----------------------------------------------------------------------------
\* LinkedInScraper

Info(msg, arg) == <<"INFO", msg, arg>>
Warning(msg, arg) == <<"WARNING", msg, arg>>
Error(msg, arg) == <<"ERROR", msg, arg>>

\* the dict literal built by simulate_profile_data
ProfileData(profile_url, connections, endorsements, now) ==
    LET u == Username(profile_url.str)
    IN  << <<"profile_url", profile_url>>,
           <<"username", S(u)>>,
           <<"name", S(<<"P", "r", "o", "f", "e", "s", "s", "i", "o", "n", "a", "l", " ">> \o Title(u))>>,
           <<"title", S(<<"J", "o", "b", " ", "T", "i", "t", "l", "e", " ", "E", "x", "a", "m", "p", "l", "e">>)>>,
           <<"company", S(<<"C", "o", "m", "p", "a", "n", "y", " ", "E", "x", "a", "m", "p", "l", "e">>)>>,
           <<"location", S(<<"C", "i", "t", "y", ",", " ", "C", "o", "u", "n", "t", "r", "y">>)>>,
           <<"about", S(<<"P", "r", "o", "f", "e", "s", "s", "i", "o", "n", "a", "l", " ", "s", "u", "m", "m", "a", "r", "y", " ", "e", "x", "a", "m", "p", "l", "e">>)>>,
           <<"skills", S(<<"P", "y", "t", "h", "o", "n", ",", " ", "W", "e", "b", " ", "S", "c", "r", "a", "p", "i", "n", "g", ",", " ", "D", "a", "t", "a", " ", "A", "n", "a", "l", "y", "s", "i", "s">>)>>,
           <<"connections", I(connections)>>,
           <<"endorsements", I(endorsements)>>,
           <<"scraped_at", S(IsoFormat(now))>>,
           <<"data_type", S(<<"S", "I", "M", "U", "L", "A", "T", "E", "D", " ", "-", " ", "F", "O", "R", " ", "D", "E", "M", "O", "N", "S", "T", "R", "A", "T", "I", "O", "N", " ", "O", "N", "L", "Y">>)>> >>

\* __init__: the collection starts empty and the logger reports the start
InitScraper ==
    /\ profiles = <<>>
    /\ log = << Info("LinkedInScraper initialized", None) >>
    /\ clock = 0
    /\ fs \in {[p \in Paths |-> Absent], [p \in Paths |-> Stale]}
    /\ pc = "idle"
    /\ urls = <<>>
    /\ idx = 0
    /\ base = 0
    /\ ret = [op |-> "__init__", val |-> None]

\* simulate_profile_data(profile_url): time.sleep raises ValueError on a
\* negative delay, .split raises AttributeError on a non-string; both are
\* caught by the except clause.
simulate_profile_data(profile_url) ==
    \E delay \in DelaySamples, connections \in ConnSamples, endorsements \in EndoSamples :
        LET rate == Info("Rate limiting: waiting", I(delay))
            processing == Info("Processing", profile_url)
            failed == Error("Error processing", profile_url)
        IN  IF delay < 0
            THEN /\ log' = log \o << rate, failed >>
                 /\ ret' = [op |-> "simulate_profile_data", val |-> None]
                 /\ UNCHANGED <<profiles, clock>>
            ELSE IF ~IsStr(profile_url)
            THEN /\ clock' = clock + delay
                 /\ log' = log \o << rate, processing, failed >>
                 /\ ret' = [op |-> "simulate_profile_data", val |-> None]
                 /\ UNCHANGED profiles
            ELSE LET profile_data ==
                         ProfileData(profile_url, connections, endorsements, clock + delay)
                 IN  /\ clock' = clock + delay
                     /\ profiles' = Append(profiles, profile_data)
                     /\ log' = log \o << rate, processing,
                                         Info("Successfully processed",
                                              Get(profile_data, "username", None)) >>
                     /\ ret' = [op |-> "simulate_profile_data", val |-> D(profile_data)]

\* scrape_profiles starting from an empty collection
scrape_profiles_begin_Reset(profile_urls) ==
    /\ pc = "idle"
    /\ log' = Append(log, Info("Starting to scrape", I(Len(profile_urls))))
    /\ urls' = profile_urls
    /\ idx' = 0
    /\ base' = 0
    /\ profiles' = <<>>
    /\ pc' = "loop"
    /\ UNCHANGED <<output_csv, min_delay, max_delay, fs, clock, ret>>

\* scrape_profiles(profile_urls), up to the for loop
scrape_profiles_begin(profile_urls) ==
    /\ pc = "idle"
    /\ log' = Append(log, Info("Starting to scrape", I(Len(profile_urls))))
    /\ urls' = profile_urls
    /\ idx' = 0
    /\ base' = Len(profiles)
    /\ pc' = "loop"
    /\ UNCHANGED <<profiles, output_csv, min_delay, max_delay, fs, clock, ret>>

\* the loop giving up at the first failed synthesis
scrape_profiles_step_Break ==
    /\ pc = "loop"
    /\ idx < Len(urls)
    /\ simulate_profile_data(urls[idx + 1])
    /\ idx' = IF ret'.val = None THEN Len(urls) ELSE idx + 1
    /\ UNCHANGED <<output_csv, min_delay, max_delay, fs, pc, urls, base>>

\* the loop walking profile_urls from its end
scrape_profiles_step_Reversed ==
    /\ pc = "loop"
    /\ idx < Len(urls)
    /\ simulate_profile_data(urls[Len(urls) - idx])
    /\ idx' = idx + 1
    /\ UNCHANGED <<output_csv, min_delay, max_delay, fs, pc, urls, base>>

\* one iteration of `for url in profile_urls: self.simulate_profile_data(url)`
scrape_profiles_step ==
    /\ pc = "loop"
    /\ idx < Len(urls)
    /\ simulate_profile_data(urls[idx + 1])
    /\ idx' = idx + 1
    /\ UNCHANGED <<output_csv, min_delay, max_delay, fs, pc, urls, base>>

\* the end of scrape_profiles: the completion log and `return self.profiles`
scrape_profiles_return ==
    /\ pc = "loop"
    /\ idx = Len(urls)
    /\ log' = Append(log, Info("Scraping complete. Total profiles", I(Len(profiles))))
    /\ ret' = [op |-> "scrape_profiles", val |-> L(profiles)]
    /\ pc' = "idle"
    /\ UNCHANGED <<profiles, output_csv, min_delay, max_delay, fs, clock, urls, idx, base>>

\* what the csv writer puts in a cell: str() of a non-string, '' for None
CsvCell(v) ==
    IF IsStr(v) THEN v.str ELSE IF IsInt(v) THEN IntToStr(v.int) ELSE <<>>

\* DictWriter._dict_to_list: the row's values in fieldnames order
CsvRow(rowdict, fieldnames) ==
    [k \in 1..Len(fieldnames) |-> CsvCell(Get(rowdict, fieldnames[k], S(<<>>)))]

\* DictWriter raises ValueError on a row with a key outside fieldnames
ExtraKeys(rowdict, fieldnames) ==
    \E k \in 1..Len(rowdict) :
        \A f \in 1..Len(fieldnames) : fieldnames[f] # rowdict[k][1]

\* number of leading rows DictWriter accepts
GoodRows(rows, fieldnames) ==
    IF \E k \in 1..Len(rows) : ExtraKeys(rows[k], fieldnames)
    THEN (CHOOSE k \in 1..Len(rows) :
              /\ ExtraKeys(rows[k], fieldnames)
              /\ \A j \in 1..(k - 1) : ~ExtraKeys(rows[j], fieldnames)) - 1
    ELSE Len(rows)

\* writerows() without writeheader()
CsvLines_NoHeader(rows, fieldnames) ==
    [k \in 1..Len(rows) |-> CsvRow(rows[k], fieldnames)]

\* writeheader() then writerows(): the header line, then one line per record
CsvLines(rows, fieldnames) ==
    << fieldnames >> \o [k \in 1..Len(rows) |-> CsvRow(rows[k], fieldnames)]

\* json.dump of one value
JsonValue(v) ==
    IF IsStr(v) THEN [string |-> v.str]
    ELSE IF IsInt(v) THEN [number |-> v.int]
    ELSE [null |-> 0]

\* json.dump of a list of dicts: an array of objects, keys in dict order
JsonArray(rows) ==
    [k \in 1..Len(rows) |->
        [m \in 1..Len(rows[k]) |-> << rows[k][m][1], JsonValue(rows[k][m][2]) >>]]

\* How a write goes: <<"ok", n>>, <<"open", 0>> when open() raises, and
\* <<"write", k>> when a write raises after k of the n items reached the file
\* (sampled: all but the last).
IoOutcomes(n) == {<<"ok", n>>, <<"open", 0>>} \cup {<<"write", n - 1>>}

\* save_to_csv() opening the file before it looks at the collection
save_to_csv_OpenFirst ==
    /\ fs' = [fs EXCEPT ![output_csv] =
                  [text |-> "csv",
                   items |-> IF profiles = <<>> THEN <<>>
                             ELSE CsvLines(profiles, Keys(profiles[1])),
                   closed |-> TRUE]]
    /\ log' = Append(log, IF profiles = <<>>
                          THEN Warning("No profiles to save", None)
                          ELSE Info("Profiles saved to", P(output_csv)))
    /\ ret' = [op |-> "save_to_csv",
               val |-> IF profiles = <<>> THEN None ELSE P(output_csv)]
    /\ UNCHANGED profiles

\* save_to_csv()
save_to_csv ==
    IF profiles = <<>>
    THEN /\ log' = Append(log, Warning("No profiles to save", None))
         /\ ret' = [op |-> "save_to_csv", val |-> None]
         /\ UNCHANGED <<profiles, fs>>
    ELSE LET fieldnames == Keys(profiles[1])
             good == GoodRows(profiles, fieldnames)
             lines == CsvLines(SubSeq(profiles, 1, good), fieldnames)
         IN  \E io \in IoOutcomes(Len(lines)) :
                 IF io[1] = "open"
                 THEN /\ log' = Append(log, Error("Error saving to CSV", None))
                      /\ ret' = [op |-> "save_to_csv", val |-> None]
                      /\ UNCHANGED <<profiles, fs>>
                 ELSE IF io[1] = "write" \/ good < Len(profiles)
                 THEN /\ fs' = [fs EXCEPT ![output_csv] =
                                   [text |-> "csv", items |-> SubSeq(lines, 1, io[2]),
                                    closed |-> FALSE]]
                      /\ log' = Append(log, Error("Error saving to CSV", None))
                      /\ ret' = [op |-> "save_to_csv", val |-> None]
                      /\ UNCHANGED profiles
                 ELSE /\ fs' = [fs EXCEPT ![output_csv] =
                                   [text |-> "csv", items |-> lines, closed |-> TRUE]]
                      /\ log' = Append(log, Info("Profiles saved to", P(output_csv)))
                      /\ ret' = [op |-> "save_to_csv", val |-> P(output_csv)]
                      /\ UNCHANGED profiles

\* save_to_json(filename)
save_to_json(filename) ==
    IF profiles = <<>>
    THEN /\ log' = Append(log, Warning("No profiles to save", None))
         /\ ret' = [op |-> "save_to_json", val |-> None]
         /\ UNCHANGED <<profiles, fs>>
    ELSE LET array == JsonArray(profiles)
         IN  \E io \in IoOutcomes(Len(array)) :
                 IF io[1] = "open"
                 THEN /\ log' = Append(log, Error("Error saving to JSON", None))
                      /\ ret' = [op |-> "save_to_json", val |-> None]
                      /\ UNCHANGED <<profiles, fs>>
                 ELSE IF io[1] = "write"
                 THEN /\ fs' = [fs EXCEPT ![filename] =
                                   [text |-> "json", items |-> SubSeq(array, 1, io[2]),
                                    closed |-> FALSE]]
                      /\ log' = Append(log, Error("Error saving to JSON", None))
                      /\ ret' = [op |-> "save_to_json", val |-> None]
                      /\ UNCHANGED profiles
                 ELSE /\ fs' = [fs EXCEPT ![filename] =
                                   [text |-> "json", items |-> array, closed |-> TRUE]]
                      /\ log' = Append(log, Info("Profiles saved to", P(filename)))
                      /\ ret' = [op |-> "save_to_json", val |-> P(filename)]
                      /\ UNCHANGED profiles

RECURSIVE GCD(_, _)
GCD(a, b) == IF b = 0 THEN a ELSE GCD(b, a % b)

\* int / int: the quotient as a fraction in lowest terms (the float nearest
\* to it in the program)
TrueDiv(a, b) == [float |-> << a \div GCD(a, b), b \div GCD(a, b) >>]

\* sum(p.get('connections', 0) for p in rows)
RECURSIVE SumConnections(_)
SumConnections(rows) ==
    IF rows = <<>> THEN 0
    ELSE Get(rows[1], "connections", I(0)).int + SumConnections(Tail(rows))

\* truth value of a Python value
Truthy(v) ==
    IF IsStr(v) THEN Len(v.str) > 0 ELSE IF IsInt(v) THEN v.int # 0 ELSE FALSE

\* the statistics averaging the endorsements field
StatsOf_WrongField(rows) ==
    IF rows = <<>>
    THEN << <<"total_profiles", I(0)>> >>
    ELSE << <<"total_profiles", I(Len(rows))>>,
            <<"average_connections",
              TrueDiv(SumConnections([k \in 1..Len(rows) |->
                          << <<"connections", Get(rows[k], "endorsements", I(0))>> >>]),
                      Len(rows))>>,
            <<"total_skills_fields",
              I(Cardinality({k \in 1..Len(rows) : Truthy(Get(rows[k], "skills", None))}))>> >>

\* the dict get_stats() returns
StatsOf(rows) ==
    IF rows = <<>>
    THEN << <<"total_profiles", I(0)>> >>
    ELSE << <<"total_profiles", I(Len(rows))>>,
            <<"average_connections", TrueDiv(SumConnections(rows), Len(rows))>>,
            <<"total_skills_fields",
              I(Cardinality({k \in 1..Len(rows) : Truthy(Get(rows[k], "skills", None))}))>> >>

\* get_stats() consuming the record it starts from
get_stats_Pop ==
    /\ ret' = [op |-> "get_stats", val |-> D(StatsOf(profiles))]
    /\ profiles' = IF profiles = <<>> THEN profiles ELSE Tail(profiles)
    /\ UNCHANGED <<log, fs>>

\* get_stats()
get_stats ==
    /\ ret' = [op |-> "get_stats", val |-> D(StatsOf(profiles))]
    /\ UNCHANGED <<profiles, log, fs>>

-----------------------------------------------------------------------------
\* The class used as a library: a client constructs one scraper and calls
\* its methods one after the other, in any order.

NoUser == /\ identifier = <<>>
          /\ username = <<>>
          /\ upc = "off"

NoMain == /\ mpc = "off"
          /\ csv_file = None
          /\ json_file = None
          /\ stats = None
          /\ out = <<>>

\* number of export calls so far, read off the log
SaveCount ==
    Cardinality({k \in 1..Len(log) :
        log[k][2] \in {"No profiles to save", "Profiles saved to",
                       "Error saving to CSV", "Error saving to JSON"}})

Init ==
    /\ InitScraper
    /\ output_csv \in Paths
    /\ \E delays \in DelayConfigs :
        /\ min_delay = delays[1]
        /\ max_delay = delays[2]
    /\ NoMain
    /\ NoUser

CallScrapeProfiles ==
    /\ mpc = "off"
    /\ \E profile_urls \in UrlLists :
        /\ Len(profiles) + Len(profile_urls) <= MaxProfiles
        /\ Len(log) + 3 * Len(profile_urls) + 2 <= MaxLog
        /\ scrape_profiles_begin(profile_urls)
    /\ UNCHANGED <<mainvars, uservars>>

LoopStep ==
    /\ scrape_profiles_step
    /\ UNCHANGED <<mainvars, uservars>>

ScrapeReturn ==
    /\ scrape_profiles_return
    /\ UNCHANGED <<mainvars, uservars>>

CallSimulate ==
    /\ mpc = "off"
    /\ pc = "idle"
    /\ Len(profiles) < MaxProfiles
    /\ Len(log) + 3 <= MaxLog
    /\ \E profile_url \in Ids : simulate_profile_data(profile_url)
    /\ UNCHANGED <<output_csv, min_delay, max_delay, fs, callvars, mainvars, uservars>>

CallSaveToCsv ==
    /\ mpc = "off"
    /\ pc = "idle"
    /\ Len(log) + 1 <= MaxLog
    /\ SaveCount < MaxSaves
    /\ save_to_csv
    /\ UNCHANGED <<output_csv, min_delay, max_delay, clock, callvars, mainvars, uservars>>

CallSaveToJson ==
    /\ mpc = "off"
    /\ pc = "idle"
    /\ Len(log) + 1 <= MaxLog
    /\ SaveCount < MaxSaves
    /\ \E filename \in Paths : save_to_json(filename)
    /\ UNCHANGED <<output_csv, min_delay, max_delay, clock, callvars, mainvars, uservars>>

CallGetStats ==
    /\ mpc = "off"
    /\ pc = "idle"
    /\ get_stats
    /\ UNCHANGED <<output_csv, min_delay, max_delay, clock, callvars, mainvars, uservars>>

Next ==
    \/ CallScrapeProfiles
    \/ LoopStep
    \/ ScrapeReturn
    \/ CallSimulate
    \/ CallSaveToCsv
    \/ CallSaveToJson
    \/ CallGetStats

Spec == Init /\ [][Next]_vars

-----------------------------------------------------------------------------
\* The script under `if __name__ == '__main__'`: the constructor is given
\* output_csv='profiles.csv' and the default delays, save_to_json its default
\* filename; sample_profiles is the list the user put in the script.

\* f'{x:.2f}' of a quotient: rounded to hundredths
Format2f(v) ==
    LET num == v.float[1]
        den == v.float[2]
        h == (2 * 100 * num + den) \div (2 * den)
    IN  IntToStr(h \div 100) \o <<".">> \o
        << DigitChar[((h % 100) \div 10) + 1], DigitChar[(h % 10) + 1] >>

InitMain ==
    /\ InitScraper
    /\ output_csv = "profiles.csv"
    /\ min_delay = DefaultMinDelay
    /\ max_delay = DefaultMaxDelay
    /\ mpc = "start"
    /\ csv_file = None
    /\ json_file = None
    /\ stats = None
    /\ out = <<>>
    /\ NoUser

\* profiles = scraper.scrape_profiles(sample_profiles)
MainScrape ==
    /\ mpc = "start"
    /\ \E sample_profiles \in UrlLists : scrape_profiles_begin(sample_profiles)
    /\ mpc' = "scraping"
    /\ UNCHANGED <<csv_file, json_file, stats, out, uservars>>

\* the call of save_to_csv with its failure escaping to the script
MainSaveCsv_Raises ==
    /\ mpc = "scraping"
    /\ pc = "idle"
    /\ save_to_csv
    /\ csv_file' = csv_file
    /\ mpc' = IF ret'.val = None /\ profiles # <<>> THEN "crashed" ELSE "json"
    /\ UNCHANGED <<output_csv, min_delay, max_delay, clock, callvars,
                   json_file, stats, out, uservars>>

\* csv_file = scraper.save_to_csv()
MainSaveCsv ==
    /\ mpc = "scraping"
    /\ pc = "idle"
    /\ save_to_csv
    /\ csv_file' = ret'.val
    /\ mpc' = "json"
    /\ UNCHANGED <<output_csv, min_delay, max_delay, clock, callvars,
                   json_file, stats, out, uservars>>

\* json_file = scraper.save_to_json()
MainSaveJson ==
    /\ mpc = "json"
    /\ save_to_json("profiles.json")
    /\ json_file' = ret'.val
    /\ mpc' = "stats"
    /\ UNCHANGED <<output_csv, min_delay, max_delay, clock, callvars,
                   csv_file, stats, out, uservars>>

\* stats = scraper.get_stats()
MainGetStats ==
    /\ mpc = "stats"
    /\ get_stats
    /\ stats' = ret'.val
    /\ mpc' = "print"
    /\ UNCHANGED <<output_csv, min_delay, max_delay, clock, callvars,
                   csv_file, json_file, out, uservars>>

\* the print statements; stats['average_connections'] raises KeyError when
\* the key is missing, which nothing catches
MainPrint ==
    /\ mpc = "print"
    /\ LET head == << <<"=== Scraping Statistics ===", None>>,
                      <<"Total Profiles Scraped", Get(stats.dict, "total_profiles", None)>> >>
       IN  IF HasKey(stats.dict, "average_connections")
           THEN /\ out' = out \o head \o
                          << <<"Average Connections",
                               S(Format2f(Get(stats.dict, "average_connections", None)))>>,
                             <<"Results saved to", None>>,
                             <<"CSV", csv_file>>,
                             <<"JSON", json_file>>,
                             <<"Note: This is simulated data for demonstration purposes.", None>>,
                             <<"Actual LinkedIn scraping violates their ToS.", None>> >>
                /\ mpc' = "done"
           ELSE /\ out' = out \o head
                /\ mpc' = "crashed"
    /\ UNCHANGED <<classvars, callvars, ret, csv_file, json_file, stats, uservars>>

NextMain ==
    \/ MainScrape
    \/ LoopStep
    \/ ScrapeReturn
    \/ MainSaveCsv
    \/ MainSaveJson
    \/ MainGetStats
    \/ MainPrint

SpecMain == InitMain /\ [][NextMain]_vars

-----------------------------------------------------------------------------
\* The username extraction of simulate_profile_data on its own, over every
\* identifier of up to MaxStrLen characters.

Alphabet == {"/", "i", "n", "a"}
Identifiers == UNION { [1..n -> Alphabet] : n \in 0..MaxStrLen }

InitUser ==
    /\ InitScraper
    /\ output_csv = "profiles.csv"
    /\ min_delay = DefaultMinDelay
    /\ max_delay = DefaultMaxDelay
    /\ NoMain
    /\ identifier \in Identifiers
    /\ username = <<>>
    /\ upc = "in"

\* username = profile_url.split('/in/')[-1].rstrip('/')
ExtractUsername ==
    /\ upc = "in"
    /\ username' = Username(identifier)
    /\ upc' = "out"
    /\ UNCHANGED <<classvars, callvars, ret, mainvars, identifier>>

NextUser == ExtractUsername

SpecUser == InitUser /\ [][NextUser]_vars

-----------------------------------------------------------------------------
\* Properties.

\* index of the log record of the latest scrape_profiles call, 0 before any
LastStart ==
    IF \E k \in 1..Len(log) : log[k][2] = "Starting to scrape"
    THEN CHOOSE k \in 1..Len(log) :
             /\ log[k][2] = "Starting to scrape"
             /\ \A j \in (k + 1)..Len(log) : log[j][2] # "Starting to scrape"
    ELSE 0

\* scrape_profiles has just returned to its caller
ScrapeReturned == pc = "idle" /\ ret.op = "scrape_profiles"

\* no synthesis of the latest scrape_profiles call failed
NoFailureInCall == \A k \in (LastStart + 1)..Len(log) : log[k][1] # "ERROR"

\* C1 as stated: a scrape_profiles call on N >= 1 identifiers, none of which
\* fails, returns exactly N records, the i-th carrying the i-th identifier.
C1_Original ==
    (ScrapeReturned /\ urls # <<>> /\ NoFailureInCall) =>
        /\ Len(ret.val.list) = Len(urls)
        /\ \A i \in 1..Len(urls) :
               Get(ret.val.list[i], "profile_url", None) = urls[i]

\* C1 amended: a scrape_profiles call on N >= 1 identifiers, none of which
\* fails, returns the records the collection held when the call began
\* followed by exactly N records, in input order, the i-th of them carrying
\* the i-th identifier.
C1_ReturnsBasePlusInputs ==
    (ScrapeReturned /\ urls # <<>> /\ NoFailureInCall) =>
        /\ base <= Len(ret.val.list)
        /\ Len(ret.val.list) = base + Len(urls)
        /\ \A i \in 1..Len(urls) :
               Get(ret.val.list[base + i], "profile_url", None) = urls[i]

C1_Witness ==
    /\ ScrapeReturned
    /\ NoFailureInCall
    /\ Len(urls) = 2
    /\ urls[1] # urls[2]
    /\ Len(ret.val.list) = 2

\* C2: the script never ends in an uncaught exception, whatever subset of the
\* identifiers succeeded, the empty subset included.
C2_MainNeverCrashes == mpc # "crashed"

IsOutcome(e) == e[2] \in {"Successfully processed", "Error processing"}

\* the outcomes logged by the latest scrape_profiles call, one per synthesis
CallOutcomes == SelectSeq(SubSeq(log, LastStart + 1, Len(log)), IsOutcome)

\* a step in which a synthesis failed
FailStep ==
    /\ Len(log') > Len(log)
    /\ log'[Len(log')][2] = "Error processing"

C3_Outcomes ==
    (pc = "loop" \/ ScrapeReturned) =>
        /\ Len(CallOutcomes) = idx
        /\ ScrapeReturned => idx = Len(urls)
        /\ \A j \in 1..Len(CallOutcomes) :
               IF CallOutcomes[j][1] = "ERROR"
               THEN CallOutcomes[j][3] = urls[j]
               ELSE /\ IsStr(urls[j])
                    /\ CallOutcomes[j][3] = S(Username(urls[j].str))

C3_FailStep ==
    FailStep =>
        /\ ret' = [op |-> "simulate_profile_data", val |-> None]
        /\ profiles' = profiles
        /\ pc = "loop" => (pc' = "loop" /\ idx' = idx + 1 /\ urls' = urls)

\* C3: a failed synthesis returns None and leaves the collection as it was;
\* scrape_profiles then moves to the next identifier, so that the syntheses
\* of one call are those of its identifiers, once each and in order.
C3_FailureIsSkipped == []C3_Outcomes /\ [][C3_FailStep]_vars

C3_Witness ==
    /\ ScrapeReturned
    /\ Len(urls) = 2
    /\ ~IsStr(urls[1])
    /\ Len(profiles) = base + 1

SaveMsgs == {"No profiles to save", "Profiles saved to",
             "Error saving to CSV", "Error saving to JSON"}

\* a step that is a call of save_to_csv or save_to_json
SaveStep ==
    /\ Len(log') = Len(log) + 1
    /\ log'[Len(log')][2] \in SaveMsgs

\* C4: an export of the empty collection returns None and leaves every file
\* as it was, absent files included.
C4_EmptyExportWritesNothing ==
    [][ (SaveStep /\ profiles = <<>>) =>
            /\ ret'.op \in {"save_to_csv", "save_to_json"}
            /\ ret'.val = None
            /\ fs' = fs ]_vars

C4_Witness ==
    /\ profiles = <<>>
    /\ ret.op \in {"save_to_csv", "save_to_json"}
    /\ ret.val = None
    /\ \A p \in Paths : fs[p] = Absent

\* a step in which an export failed on the file
CsvErrorStep ==
    /\ Len(log') = Len(log) + 1
    /\ log'[Len(log')][2] = "Error saving to CSV"

JsonErrorStep ==
    /\ Len(log') = Len(log) + 1
    /\ log'[Len(log')][2] = "Error saving to JSON"

C5_FailStep ==
    /\ CsvErrorStep => (csv_file' = None /\ mpc' = "json" /\ profiles' = profiles)
    /\ JsonErrorStep => (json_file' = None /\ mpc' = "stats" /\ profiles' = profiles)

C5_JsonAttempted ==
    \A k \in 1..Len(log) :
        (log[k][2] = "Error saving to CSV" /\ mpc \in {"stats", "print", "done", "crashed"}) =>
            /\ csv_file = None
            /\ json_file \in {None, P("profiles.json")}
            /\ \E j \in (k + 1)..Len(log) :
                   \/ log[j][2] = "Error saving to JSON"
                   \/ /\ log[j][2] = "Profiles saved to"
                      /\ log[j][3] = P("profiles.json")

\* C5: in the script a failed file write makes the export return None and
\* the run go on to the next statement with the collection as it was; after
\* a failed save_to_csv, save_to_json has been called by the time the
\* statistics are computed.
C5_ExportFailureIsContained == []C5_JsonAttempted /\ [][C5_FailStep]_vars

\* save_to_csv failed and save_to_json then wrote the whole collection
C5_Witness ==
    /\ mpc \in {"stats", "print", "done"}
    /\ profiles # <<>>
    /\ csv_file = None
    /\ json_file = P("profiles.json")
    /\ fs["profiles.json"] =
           [text |-> "json", items |-> JsonArray(profiles), closed |-> TRUE]

\* positions at which '/in/' occurs in s
Occ(s) == {i \in 1..(Len(s) - 3) : SubSeq(s, i, i + 3) = Marker}

SetMax(T) == CHOOSE m \in T : \A t \in T : t <= m

\* s without its trailing '/' characters
StripSlashes(s) == SubSeq(s, 1, SetMax({0} \cup {k \in 1..Len(s) : s[k] # "/"}))

\* the occurrences of '/in/' met when s is read from the left and an
\* occurrence that shares its first '/' with the one before is passed over
Counted(s) ==
    LET in[i \in 1..Len(s)] ==
            /\ i \in Occ(s)
            /\ \A j \in Occ(s) : (i - 4 < j /\ j < i) => ~in[j]
    IN  {i \in 1..Len(s) : in[i]}

RECURSIVE ConnectionsUpTo(_)
ConnectionsUpTo(k) ==
    IF k = 0 THEN 0
    ELSE Get(profiles[k], "connections", I(0)).int + ConnectionsUpTo(k - 1)

\* C7: get_stats of the empty collection is {'total_profiles': 0}; otherwise
\* total_profiles is the number of records, average_connections their mean
\* connections and total_skills_fields the number of records with a
\* non-empty skills field.
C7_Stats ==
    ret.op = "get_stats" =>
        IF profiles = <<>>
        THEN ret.val.dict = << <<"total_profiles", I(0)>> >>
        ELSE LET avg == Get(ret.val.dict, "average_connections", None).float
             IN  /\ Keys(ret.val.dict) =
                        <<"total_profiles", "average_connections", "total_skills_fields">>
                 /\ Get(ret.val.dict, "total_profiles", None) = I(Len(profiles))
                 /\ avg[2] > 0
                 /\ avg[1] * Len(profiles) = ConnectionsUpTo(Len(profiles)) * avg[2]
                 /\ Get(ret.val.dict, "total_skills_fields", None) =
                        I(Cardinality({k \in 1..Len(profiles) :
                              Get(profiles[k], "skills", S(<<>>)) # S(<<>>)}))

\* connections 100 and 300 give the average 200.0
C7_Witness ==
    /\ ret.op = "get_stats"
    /\ Len(profiles) = 2
    /\ Get(profiles[1], "connections", None) = I(100)
    /\ Get(profiles[2], "connections", None) = I(300)
    /\ Get(ret.val.dict, "average_connections", None) = [float |-> <<200, 1>>]

\* a step that is a call of get_stats
StatsStep ==
    /\ ret'.op = "get_stats"
    /\ log' = log
    /\ pc = "idle"
    /\ pc' = "idle"

\* C8: the collection changes only by one record appended at its end by a
\* successful synthesis; the exports and get_stats leave it as it was, and
\* get_stats called again returns what it returned before.
C8_AppendOnly ==
    [][ /\ \/ profiles' = profiles
           \/ /\ Len(profiles') = Len(profiles) + 1
              /\ SubSeq(profiles', 1, Len(profiles)) = profiles
              /\ log'[Len(log')][2] = "Successfully processed"
        /\ (SaveStep \/ StatsStep) => profiles' = profiles
        /\ (StatsStep /\ ret.op = "get_stats") => ret' = ret ]_vars

C8_Witness ==
    /\ ret.op = "get_stats"
    /\ Len(profiles) = 2
    /\ SaveCount = 1

\* the int a string of digits denotes, -1 for any other string
RECURSIVE ParseInt(_)
ParseInt(chars) ==
    IF chars = <<>> \/ \E k \in 1..Len(chars) : \A d \in 1..10 : DigitChar[d] # chars[k]
    THEN -1
    ELSE LET last == (CHOOSE d \in 1..10 : DigitChar[d] = chars[Len(chars)]) - 1
         IN  IF Len(chars) = 1 THEN last
             ELSE 10 * ParseInt(SubSeq(chars, 1, Len(chars) - 1)) + last

\* a cell holds the string cast of a value
IsStrCast(cell, v) ==
    IF IsInt(v) THEN ParseInt(cell) = v.int /\ (Len(cell) > 1 => cell[1] # "0")
    ELSE IsStr(v) /\ cell = v.str

\* the Python value a JSON value parses to
JsonLoad(j) ==
    IF "string" \in DOMAIN j THEN S(j.string)
    ELSE IF "number" \in DOMAIN j THEN I(j.number)
    ELSE None

\* C9: after a successful export the file named by the returned path holds
\* the whole collection in order: a header line of the first record's keys
\* and one line of string-cast values per record for CSV, one array of
\* objects equal to the records for JSON.
C9_ExportHoldsCollection ==
    /\ (ret.op = "save_to_csv" /\ ret.val # None) =>
           /\ ret.val = P(output_csv)
           /\ LET f == fs[output_csv]
              IN  /\ DOMAIN f = {"text", "items", "closed"}
                  /\ f.text = "csv"
                  /\ f.closed
                  /\ Len(f.items) = Len(profiles) + 1
                  /\ f.items[1] = Keys(profiles[1])
                  /\ \A i \in 1..Len(profiles) :
                         /\ Len(f.items[i + 1]) = Len(profiles[i])
                         /\ \A k \in 1..Len(profiles[i]) :
                                IsStrCast(f.items[i + 1][k], profiles[i][k][2])
    /\ (ret.op = "save_to_json" /\ ret.val # None) =>
           /\ ret.val \in {P(p) : p \in Paths}
           /\ LET f == fs[ret.val.path]
              IN  /\ DOMAIN f = {"text", "items", "closed"}
                  /\ f.text = "json"
                  /\ f.closed
                  /\ Len(f.items) = Len(profiles)
                  /\ \A i \in 1..Len(profiles) :
                         /\ Len(f.items[i]) = Len(profiles[i])
                         /\ \A k \in 1..Len(profiles[i]) :
                                /\ f.items[i][k][1] = profiles[i][k][1]
                                /\ JsonLoad(f.items[i][k][2]) = profiles[i][k][2]

C9_Witness ==
    /\ ret.op = "save_to_csv"
    /\ ret.val = P(output_csv)
    /\ Len(profiles) = 2
    /\ profiles[1] # profiles[2]

\* number of successful syntheses since construction, read off the log
SuccessCount ==
    Cardinality({k \in 1..Len(log) : log[k][2] = "Successfully processed"})

\* C10: the collection holds one record per successful synthesis since
\* construction; scrape_profiles returns that whole collection and logs its
\* length as the completion count.
C10_NeverReset ==
    /\ Len(profiles) = SuccessCount
    /\ ScrapeReturned =>
           /\ ret.val.list = profiles
           /\ log[Len(log)] = Info("Scraping complete. Total profiles", I(Len(profiles)))

\* a second call returns the record of the first call and its own
C10_Witness ==
    /\ ScrapeReturned
    /\ base = 1
    /\ Len(urls) = 1
    /\ Len(ret.val.list) = 2

====
